---- MODULE Spec2Model ----
(***************************************************************************)
(* Model of src/server.js: a chat hub over socket.io with two mongoose     *)
(* collections (users, messages), an HTTP gateway and a multer upload      *)
(* directory.                                                              *)
(*                                                                         *)
(* Every socket handler is an async function.  socket.io starts a handler  *)
(* when the event arrives and does not wait for the promise it returns, so *)
(* a handler is a task that advances one store call at a time; the steps   *)
(* of different tasks (of the same connection too) interleave.  A store    *)
(* call is applied atomically by the store; the emit that follows the last *)
(* await is a step of its own.  Every store call may fail (reject).        *)
(***************************************************************************)
EXTENDS Integers, Sequences, FiniteSets, TLC

\* ------------------------------------------------------------------ bounds
NConn == 2
MaxEvents == 4
MaxInFlight == 2
MaxClock == 1

Conns == 1..NConn
Usernames == {"alice", "bob"}

\* ------------------------------------------------------- javascript values
Undefined == "<undefined>"
Null == "<null>"

\* a property read: data.k
Get(data, k) == IF k \in DOMAIN data THEN data[k] ELSE Undefined

\* the strings JavaScript's || treats as false
Falsy(v) == v \in {Undefined, Null, ""}

\* a || b
OrElse(a, b) == IF Falsy(a) THEN b ELSE a

\* payloads a client sends with sendMessage
Payloads ==
    { [content |-> "hi", fileUrl |-> ""],
      [fileUrl |-> "/uploads/1.png", fileType |-> "image/png"] }

\* ---------------------------------------------------------------- uploads
\* names a client gives its file, as sequences of characters ("." and "/" matter)
FileNames ==
    { <<"p", ".", "png">>,
      <<"a", ".", "b", ".", "png">>,
      <<".", "rc">>,
      <<"d", ".", "x", "/", "n">>,
      <<"n", ".">> }

Bytes == {"bytes1", "bytes2"}

MimeTypes == {"image/png", "text/plain"}

\* position of the last x in s, 0 when there is none
LastIndexOf(s, x) ==
    LET hits == {i \in 1..Len(s) : s[i] = x}
    IN  IF hits = {} THEN 0 ELSE CHOOSE i \in hits : \A j \in hits : j <= i

\* the characters of s joined into one string
RECURSIVE Join(_)
Join(s) == IF s = <<>> THEN "" ELSE Head(s) \o Join(Tail(s))

\* path.extname(name): from the last "." of the last path segment to the end;
\* empty when there is no "." or the segment starts with its only "."
ExtName(name) ==
    LET base == SubSeq(name, LastIndexOf(name, "/") + 1, Len(name))
        dot == LastIndexOf(base, ".")
    IN  IF dot <= 1 THEN "" ELSE Join(SubSeq(base, dot, Len(base)))

VARIABLES
    status,     \* status[c]: "new" (not yet connected), "live", "closed"
    users,      \* the users collection, in the store's natural order
    messages,   \* the messages collection, in the store's natural order
    tasks,      \* handlers in flight, in the order they started
    nextId,     \* number of handlers started so far
    now,        \* the last value read from the clock
    lastEmit,   \* the event the last step emitted, NoEmit when it emitted none
    crashed,    \* the process ended on an unhandled rejection
    lastReg,    \* history: lastReg[u] = connection of the last upsert applied on u
    regs,       \* history: the upserts applied, as (username, connection)
    clr,        \* history of clearChat: seen (an event arrived), done (a handler
                \* emitted), lateSend (a sendMessage arrived after a clearChat),
                \* raced (a delete was applied with an unsaved sendMessage in
                \* flight), removed (a delete removed a message)
    files,      \* the uploads directory: file name -> bytes
    resp,       \* the HTTP response the last step sent, NoResp when it sent none
    uploaded    \* history: the successful uploads, as (fileUrl, bytes)

vars == <<status, users, messages, tasks, nextId, now, lastEmit, crashed,
          lastReg, regs, clr, files, resp, uploaded>>

\* --------------------------------------------------------------- the store
Indexes(s) == 1..Len(s)

\* { socketId: { $exists: true } }
HasSocket(r) == "socketId" \in DOMAIN r

\* positions of the records matching { username: u }
ByUsername(us, u) == {i \in Indexes(us) : us[i].username = u}

\* positions of the records matching { socketId: c }
BySocket(us, c) == {i \in Indexes(us) : HasSocket(us[i]) /\ us[i].socketId = c}

\* findOne in the place of find: the first online user only
OneOnlineUser(us) ==
    LET online == SelectSeq(us, HasSocket)
    IN  IF online = <<>> THEN <<>> ELSE <<online[1].username>>

\* a query that forgets the socketId filter: every user is online
AllUsers(us) == [i \in Indexes(us) |-> us[i].username]

\* User.find({ socketId: { $exists: true } }).select("username -_id"), mapped to names
OnlineUsers(us) ==
    LET online == SelectSeq(us, HasSocket)
    IN  [i \in Indexes(online) |-> online[i].username]

Range(s) == {s[i] : i \in Indexes(s)}

NoEmit == [event |-> "none", payload |-> <<>>, to |-> {}]

NoResp == [status |-> 0]

Live == {c \in Conns : status[c] = "live"}

\* a step of the hub sends no HTTP response and leaves the uploads directory alone
HttpIdle == resp' = NoResp /\ UNCHANGED <<files, uploaded>>

Init ==
    /\ status = [c \in Conns |-> "new"]
    /\ users = <<>>
    /\ messages = <<>>
    /\ tasks = <<>>
    /\ nextId = 0
    /\ now = 0
    /\ lastEmit = NoEmit
    /\ crashed = FALSE
    /\ lastReg = [u \in Usernames |-> 0]
    /\ regs = {}
    /\ clr = [seen |-> FALSE, done |-> FALSE, lateSend |-> FALSE, raced |-> FALSE,
             removed |-> FALSE]
    /\ files = <<>>
    /\ resp = NoResp
    /\ uploaded = {}

\* ------------------------------------------------------------ store calls
\* an upsert that is not atomic: two registrations of a new username both insert
UpsertInsert(us, u, c) == Append(us, [username |-> u, socketId |-> c])

\* an upsert that only inserts: the record of a known username keeps its socketId
UpsertKeep(us, u, c) ==
    IF ByUsername(us, u) = {}
    THEN Append(us, [username |-> u, socketId |-> c])
    ELSE us

\* findOneAndUpdate({ username: u }, { socketId: c }, { new: true, upsert: true }):
\* one atomic call that updates the record of u, or inserts it when there is none
Upsert(us, u, c) ==
    IF ByUsername(us, u) = {}
    THEN Append(us, [username |-> u, socketId |-> c])
    ELSE LET i == CHOOSE k \in ByUsername(us, u) : \A j \in ByUsername(us, u) : k <= j
         IN  [us EXCEPT ![i] = [username |-> u, socketId |-> c]]

\* a lookup that forgets the socketId filter: any online user is a sender
SendersAny(us, c) == {us[i].username : i \in {k \in Indexes(us) : HasSocket(us[k])}}

\* User.findOne({ socketId: c }): the records it may return (one of the
\* matching records; the query names no order), none when empty
Senders(us, c) == {us[i].username : i \in BySocket(us, c)}

\* a message built without the defaults of the handler
NewMessageNoDefault(sender, data, ts) ==
    [sender |-> sender,
     content |-> Get(data, "content"),
     fileUrl |-> Get(data, "fileUrl"),
     fileType |-> Get(data, "fileType"),
     timestamp |-> ts]

\* new Message({ sender, content: data.content || "", fileUrl: data.fileUrl || null,
\* fileType: data.fileType || null }); timestamp defaults to Date.now()
NewMessage(sender, data, ts) ==
    [sender |-> sender,
     content |-> OrElse(Get(data, "content"), ""),
     fileUrl |-> OrElse(Get(data, "fileUrl"), Null),
     fileType |-> OrElse(Get(data, "fileType"), Null),
     timestamp |-> ts]

\* a save that puts the message first
SaveFirst(ms, m) == <<m>> \o ms

\* a save that persists the message twice
SaveTwice(ms, m) == Append(Append(ms, m), m)

\* a save that persists nothing
SaveNothing(ms, m) == ms

\* newMessage.save()
Save(ms, m) == Append(ms, m)

\* Message.deleteOne() in the place of deleteMany()
DeleteOne(ms) == IF ms = <<>> THEN ms ELSE Tail(ms)

\* Message.deleteMany()
DeleteMany(ms) == <<>>

\* findOneAndUpdate({ socketId: c }, { $unset: { socketId: 1 } }): the records it
\* may update (one of the matching records)
UnsetTargets(us, c) == BySocket(us, c)

\* a disconnect that deletes the record instead of clearing its socketId
UnsetDelete(us, i) == SubSeq(us, 1, i - 1) \o SubSeq(us, i + 1, Len(us))

\* { $unset: { socketId: 1 } } applied to record i
Unset(us, i) == [us EXCEPT ![i] = [username |-> us[i].username]]

\* an emit that reaches one socket only, the connected one with the lowest id
EmitToOne(event, payload) ==
    [event |-> event, payload |-> payload,
     to |-> {c \in Live : \A d \in Live : c <= d}]

\* io.emit(event, payload): to every socket connected at that moment
Broadcast(event, payload) ==
    [event |-> event, payload |-> payload, to |-> Live]

\* socket.emit(event, payload): to the socket of the handler only
Reply(event, payload, c) ==
    [event |-> event, payload |-> payload, to |-> {c}]

\* ------------------------------------------------------------------ tasks
\* sentAt: when the event was sent (kept for sendMessage, whose message is
\* timestamped; 0 for the other handlers)
Task(kind, c, pc, data, sentAt) ==
    [kind |-> kind, conn |-> c, pc |-> pc, data |-> data, res |-> <<>>,
     sentAt |-> sentAt, wrote |-> FALSE]

Start(t) == Append(tasks, t)

\* the handler at position id returns
Finish(id) == SubSeq(tasks, 1, id - 1) \o SubSeq(tasks, id + 1, Len(tasks))

Running(kind, pc) == {i \in DOMAIN tasks : tasks[i].kind = kind /\ tasks[i].pc = pc}

\* no handler is in flight
Quiet == tasks = <<>>

CanStart == ~crashed /\ nextId < MaxEvents /\ Len(tasks) < MaxInFlight

\* ------------------------------------------------------------ connection
\* io.on("connection"): a new socket, with an id no socket had before
Connect(c) ==
    /\ ~crashed
    /\ status[c] = "new"
    /\ status' = [status EXCEPT ![c] = "live"]
    /\ lastEmit' = NoEmit
    /\ HttpIdle
    /\ UNCHANGED <<users, messages, tasks, nextId, now, crashed,
                   lastReg, regs, clr>>

\* Date.now(): the values a read of the clock may return; the clock does not
\* run backwards, and now is the value of its last read
DateNow == now..MaxClock

\* ---------------------------------------------------------- registerUser
\* socket.on("registerUser"): the handler starts and issues the upsert
RegisterUser(c, u) ==
    /\ CanStart
    /\ status[c] = "live"
    /\ tasks' = Start(Task("registerUser", c, "upsert", [username |-> u], 0))
    /\ nextId' = nextId + 1
    /\ lastEmit' = NoEmit
    /\ HttpIdle
    /\ UNCHANGED <<status, users, messages, now, crashed,
                   lastReg, regs, clr>>

\* the store applies the upsert; the handler issues the online-users query
RegUpsert(id) ==
    /\ ~crashed
    /\ id \in Running("registerUser", "upsert")
    /\ LET t == tasks[id]
       IN  /\ users' = Upsert(users, t.data.username, t.conn)
           /\ tasks' = [tasks EXCEPT ![id].pc = "find",
                                     ![id].wrote = (users' # users)]
           /\ lastReg' = [lastReg EXCEPT ![t.data.username] = t.conn]
           /\ regs' = regs \cup {<<t.data.username, t.conn>>}
    /\ lastEmit' = NoEmit
    /\ HttpIdle
    /\ UNCHANGED <<status, messages, nextId, now, crashed, clr>>

\* the store answers the online-users query
RegFind(id) ==
    /\ ~crashed
    /\ id \in Running("registerUser", "find")
    /\ tasks' = [tasks EXCEPT ![id].pc = "emit", ![id].res = OnlineUsers(users)]
    /\ lastEmit' = NoEmit
    /\ HttpIdle
    /\ UNCHANGED <<status, users, messages, nextId, now, crashed,
                   lastReg, regs, clr>>

\* io.emit("userConnected", names)
RegEmit(id) ==
    /\ ~crashed
    /\ id \in Running("registerUser", "emit")
    /\ lastEmit' = Broadcast("userConnected", tasks[id].res)
    /\ tasks' = Finish(id)
    /\ HttpIdle
    /\ UNCHANGED <<status, users, messages, nextId, now, crashed,
                   lastReg, regs, clr>>

\* ----------------------------------------------------------- sendMessage
\* socket.on("sendMessage"): the handler starts and issues the sender lookup
SendMessage(c, data) ==
    /\ CanStart
    /\ status[c] = "live"
    /\ \E sentAt \in DateNow :
          /\ now' = sentAt
          /\ tasks' = Start(Task("sendMessage", c, "lookup", data, sentAt))
    /\ nextId' = nextId + 1
    /\ clr' = [clr EXCEPT !.lateSend = clr.lateSend \/ clr.seen]
    /\ lastEmit' = NoEmit
    /\ HttpIdle
    /\ UNCHANGED <<status, users, messages, crashed, lastReg, regs>>

\* the store answers the lookup with no sender: the handler will reject
SendLookupNone(id) ==
    /\ ~crashed
    /\ id \in Running("sendMessage", "lookup")
    /\ Senders(users, tasks[id].conn) = {}
    /\ tasks' = [tasks EXCEPT ![id].pc = "reject"]
    /\ lastEmit' = NoEmit
    /\ HttpIdle
    /\ UNCHANGED <<status, users, messages, nextId, now, crashed,
                   lastReg, regs, clr>>

\* the store answers the lookup with a sender: the handler builds the message
\* and issues the save
SendLookupFound(id) ==
    /\ ~crashed
    /\ id \in Running("sendMessage", "lookup")
    /\ \E sender \in Senders(users, tasks[id].conn), ts \in DateNow :
          /\ now' = ts
          /\ tasks' = [tasks EXCEPT ![id].pc = "save",
                                    ![id].res = NewMessage(sender, tasks[id].data, ts)]
    /\ lastEmit' = NoEmit
    /\ HttpIdle
    /\ UNCHANGED <<status, users, messages, nextId, crashed,
                   lastReg, regs, clr>>

\* socket.emit("error", { message: "Unauthorized user" })
SendReject(id) ==
    /\ ~crashed
    /\ id \in Running("sendMessage", "reject")
    /\ lastEmit' = Reply("error", [message |-> "Unauthorized user"], tasks[id].conn)
    /\ tasks' = Finish(id)
    /\ HttpIdle
    /\ UNCHANGED <<status, users, messages, nextId, now, crashed,
                   lastReg, regs, clr>>

\* the store applies the save
SendSave(id) ==
    /\ ~crashed
    /\ id \in Running("sendMessage", "save")
    /\ messages' = Save(messages, tasks[id].res)
    /\ tasks' = [tasks EXCEPT ![id].pc = "emit", ![id].wrote = TRUE]
    /\ lastEmit' = NoEmit
    /\ HttpIdle
    /\ UNCHANGED <<status, users, nextId, now, crashed,
                   lastReg, regs, clr>>

\* io.emit("receiveMessage", newMessage)
SendEmit(id) ==
    /\ ~crashed
    /\ id \in Running("sendMessage", "emit")
    /\ lastEmit' = Broadcast("receiveMessage", tasks[id].res)
    /\ tasks' = Finish(id)
    /\ HttpIdle
    /\ UNCHANGED <<status, users, messages, nextId, now, crashed,
                   lastReg, regs, clr>>

\* ------------------------------------------------------------- clearChat
\* socket.on("clearChat"): the handler starts and issues the delete
ClearChat(c) ==
    /\ CanStart
    /\ status[c] = "live"
    /\ tasks' = Start(Task("clearChat", c, "delete", <<>>, 0))
    /\ nextId' = nextId + 1
    /\ clr' = [clr EXCEPT !.seen = TRUE]
    /\ lastEmit' = NoEmit
    /\ HttpIdle
    /\ UNCHANGED <<status, users, messages, now, crashed,
                   lastReg, regs>>

\* sendMessage handlers that have not saved their message yet
Unsaved == Running("sendMessage", "lookup") \cup Running("sendMessage", "save")

\* the store applies the delete
ClearDelete(id) ==
    /\ ~crashed
    /\ id \in Running("clearChat", "delete")
    /\ messages' = DeleteMany(messages)
    /\ tasks' = [tasks EXCEPT ![id].pc = "emit",
                              ![id].wrote = (messages' # messages)]
    /\ clr' = [clr EXCEPT !.raced = clr.raced \/ Unsaved # {},
                          !.removed = clr.removed \/ messages # <<>>]
    /\ lastEmit' = NoEmit
    /\ HttpIdle
    /\ UNCHANGED <<status, users, nextId, now, crashed,
                   lastReg, regs>>

\* io.emit("receiveMessage", [])
ClearEmit(id) ==
    /\ ~crashed
    /\ id \in Running("clearChat", "emit")
    /\ lastEmit' = Broadcast("receiveMessage", <<>>)
    /\ tasks' = Finish(id)
    /\ clr' = [clr EXCEPT !.done = TRUE]
    /\ HttpIdle
    /\ UNCHANGED <<status, users, messages, nextId, now, crashed,
                   lastReg, regs>>

\* ------------------------------------------------------------ disconnect
\* socket.on("disconnect"): the socket is gone; the handler starts and issues
\* the update
Disconnect(c) ==
    /\ CanStart
    /\ status[c] = "live"
    /\ status' = [status EXCEPT ![c] = "closed"]
    /\ tasks' = Start(Task("disconnect", c, "unset", <<>>, 0))
    /\ nextId' = nextId + 1
    /\ lastEmit' = NoEmit
    /\ HttpIdle
    /\ UNCHANGED <<users, messages, now, crashed, lastReg, regs, clr>>

\* the store applies the update: one matching record loses its socketId, or
\* nothing matches
DiscUnset(id) ==
    /\ ~crashed
    /\ id \in Running("disconnect", "unset")
    /\ LET targets == UnsetTargets(users, tasks[id].conn)
       IN  IF targets = {}
           THEN users' = users
           ELSE \E i \in targets : users' = Unset(users, i)
    /\ tasks' = [tasks EXCEPT ![id].pc = "find", ![id].wrote = (users' # users)]
    /\ lastEmit' = NoEmit
    /\ HttpIdle
    /\ UNCHANGED <<status, messages, nextId, now, crashed,
                   lastReg, regs, clr>>

\* the store answers the online-users query
DiscFind(id) ==
    /\ ~crashed
    /\ id \in Running("disconnect", "find")
    /\ tasks' = [tasks EXCEPT ![id].pc = "emit", ![id].res = OnlineUsers(users)]
    /\ lastEmit' = NoEmit
    /\ HttpIdle
    /\ UNCHANGED <<status, users, messages, nextId, now, crashed,
                   lastReg, regs, clr>>

\* io.emit("userDisconnected", names)
DiscEmit(id) ==
    /\ ~crashed
    /\ id \in Running("disconnect", "emit")
    /\ lastEmit' = Broadcast("userDisconnected", tasks[id].res)
    /\ tasks' = Finish(id)
    /\ HttpIdle
    /\ UNCHANGED <<status, users, messages, nextId, now, crashed,
                   lastReg, regs, clr>>

\* --------------------------------------------------------- store failure
\* pcs at which a handler waits for the store
StorePcs == {"upsert", "find", "lookup", "save", "delete", "unset"}

Waiting == {i \in DOMAIN tasks : tasks[i].pc \in StorePcs}

\* a store call rejects inside try { } catch (err) { console.error(err) }:
\* the handler ends there
CaughtFail(id) ==
    /\ ~crashed
    /\ id \in Waiting
    /\ tasks[id].kind # "clearChat"
    /\ tasks' = Finish(id)
    /\ lastEmit' = NoEmit
    /\ HttpIdle
    /\ UNCHANGED <<status, users, messages, nextId, now, crashed,
                   lastReg, regs, clr>>

\* Message.deleteMany() rejects in the clearChat handler, which has no try:
\* the promise of the handler rejects with nobody to catch it.  Node ends the
\* process on an unhandled rejection (from version 15) or only warns (before).
UncaughtFail(id) ==
    /\ ~crashed
    /\ id \in Running("clearChat", "delete")
    /\ tasks' = Finish(id)
    /\ crashed' \in BOOLEAN
    /\ lastEmit' = NoEmit
    /\ HttpIdle
    /\ UNCHANGED <<status, users, messages, nextId, now, lastReg, regs, clr>>

\* ------------------------------------------------------------ HTTP reads
\* app.get("/messages"): the handler starts and issues Message.find()
GetMessagesRoute ==
    /\ CanStart
    /\ tasks' = Start(Task("GET /messages", 0, "query", <<>>, 0))
    /\ nextId' = nextId + 1
    /\ lastEmit' = NoEmit
    /\ HttpIdle
    /\ UNCHANGED <<status, users, messages, now, crashed, lastReg, regs, clr>>

\* the store answers Message.find(): res.json(messages)
MessagesFound(id) ==
    /\ ~crashed
    /\ id \in Running("GET /messages", "query")
    /\ resp' = [route |-> "GET /messages", status |-> 200, body |-> messages]
    /\ tasks' = Finish(id)
    /\ lastEmit' = NoEmit
    /\ UNCHANGED <<status, users, messages, nextId, now, crashed,
                   lastReg, regs, clr, files, uploaded>>

\* app.get("/online-users"): the handler starts and issues User.find(...)
GetOnlineUsersRoute ==
    /\ CanStart
    /\ tasks' = Start(Task("GET /online-users", 0, "query", <<>>, 0))
    /\ nextId' = nextId + 1
    /\ lastEmit' = NoEmit
    /\ HttpIdle
    /\ UNCHANGED <<status, users, messages, now, crashed, lastReg, regs, clr>>

\* the store answers User.find(...): res.json(onlineUsers.map(user => user.username))
OnlineUsersFound(id) ==
    /\ ~crashed
    /\ id \in Running("GET /online-users", "query")
    /\ resp' = [route |-> "GET /online-users", status |-> 200,
                body |-> OnlineUsers(users)]
    /\ tasks' = Finish(id)
    /\ lastEmit' = NoEmit
    /\ UNCHANGED <<status, users, messages, nextId, now, crashed,
                   lastReg, regs, clr, files, uploaded>>

\* the message of the error a failed query rejects with
ErrMessage == "err.message"

\* the query of a GET route rejects: res.status(500).json({ error: err.message })
QueryFail(id) ==
    /\ ~crashed
    /\ id \in Running("GET /messages", "query") \cup Running("GET /online-users", "query")
    /\ resp' = [route |-> tasks[id].kind, status |-> 500, error |-> ErrMessage]
    /\ tasks' = Finish(id)
    /\ lastEmit' = NoEmit
    /\ UNCHANGED <<status, users, messages, nextId, now, crashed,
                   lastReg, regs, clr, files, uploaded>>

\* ---------------------------------------------------------- specification
Ids == 1..MaxInFlight

\* the steps in which no store call fails
NextOk ==
    \/ \E c \in Conns : Connect(c)
    \/ \E c \in Conns, u \in Usernames : RegisterUser(c, u)
    \/ \E id \in Ids : RegUpsert(id)
    \/ \E id \in Ids : RegFind(id)
    \/ \E id \in Ids : RegEmit(id)
    \/ \E c \in Conns, data \in Payloads : SendMessage(c, data)
    \/ \E id \in Ids : SendLookupNone(id)
    \/ \E id \in Ids : SendLookupFound(id)
    \/ \E id \in Ids : SendReject(id)
    \/ \E id \in Ids : SendSave(id)
    \/ \E id \in Ids : SendEmit(id)
    \/ \E c \in Conns : ClearChat(c)
    \/ \E id \in Ids : ClearDelete(id)
    \/ \E id \in Ids : ClearEmit(id)
    \/ \E c \in Conns : Disconnect(c)
    \/ \E id \in Ids : DiscUnset(id)
    \/ \E id \in Ids : DiscFind(id)
    \/ \E id \in Ids : DiscEmit(id)

Next ==
    \/ NextOk
    \/ \E id \in Ids : CaughtFail(id)
    \/ \E id \in Ids : UncaughtFail(id)

\* the hub, with store calls that may fail
Spec == Init /\ [][Next]_vars

\* the hub when every store call succeeds
SpecOk == Init /\ [][NextOk]_vars

\* the steps the handlers in flight take once their store call is answered
Step ==
    \/ \E id \in Ids : RegUpsert(id)
    \/ \E id \in Ids : RegFind(id)
    \/ \E id \in Ids : RegEmit(id)
    \/ \E id \in Ids : SendLookupNone(id)
    \/ \E id \in Ids : SendLookupFound(id)
    \/ \E id \in Ids : SendReject(id)
    \/ \E id \in Ids : SendSave(id)
    \/ \E id \in Ids : SendEmit(id)
    \/ \E id \in Ids : ClearDelete(id)
    \/ \E id \in Ids : ClearEmit(id)
    \/ \E id \in Ids : DiscUnset(id)
    \/ \E id \in Ids : DiscFind(id)
    \/ \E id \in Ids : DiscEmit(id)

\* the hub when every store call succeeds: the store answers every call and the
\* event loop resumes the handler that waits for the answer
SpecOkFair == SpecOk /\ WF_vars(Step)

\* the hub when every store call succeeds and every handler has returned before
\* the next event arrives: the behaviours of a test that sends one event at a
\* time and waits for its effect
NextSeq ==
    \/ \E c \in Conns : Connect(c)
    \/ \E c \in Conns, u \in Usernames : Quiet /\ RegisterUser(c, u)
    \/ \E id \in Ids : RegUpsert(id)
    \/ \E id \in Ids : RegFind(id)
    \/ \E id \in Ids : RegEmit(id)
    \/ \E c \in Conns, data \in Payloads : Quiet /\ SendMessage(c, data)
    \/ \E id \in Ids : SendLookupNone(id)
    \/ \E id \in Ids : SendLookupFound(id)
    \/ \E id \in Ids : SendReject(id)
    \/ \E id \in Ids : SendSave(id)
    \/ \E id \in Ids : SendEmit(id)
    \/ \E c \in Conns : Quiet /\ ClearChat(c)
    \/ \E id \in Ids : ClearDelete(id)
    \/ \E id \in Ids : ClearEmit(id)
    \/ \E c \in Conns : Quiet /\ Disconnect(c)
    \/ \E id \in Ids : DiscUnset(id)
    \/ \E id \in Ids : DiscFind(id)
    \/ \E id \in Ids : DiscEmit(id)

SpecSeq == Init /\ [][NextSeq]_vars

\* ----------------------------------------------------------------- upload
\* multer's filename callback: Date.now() + path.extname(file.originalname)
FileName(ts, originalname) == <<ts, ExtName(originalname)>>

\* `/uploads/${req.file.filename}`
FileUrl(filename) == <<"/uploads/">> \o filename

\* multer writes the file under its name, replacing a file of that name
WriteFile(fs, filename, bytes) ==
    [n \in DOMAIN fs \cup {filename} |-> IF n = filename THEN bytes ELSE fs[n]]

\* POST /upload with a file part
Upload(originalname, mimetype, bytes) ==
    /\ ~crashed
    /\ \E ts \in DateNow :
          LET filename == FileName(ts, originalname)
          IN  /\ now' = ts
              /\ files' = WriteFile(files, filename, bytes)
              /\ resp' = [status |-> 200, fileUrl |-> FileUrl(filename),
                          fileType |-> mimetype]
              /\ uploaded' = uploaded \cup {<<FileUrl(filename), bytes>>}
    /\ lastEmit' = NoEmit
    /\ UNCHANGED <<status, users, messages, tasks, nextId, crashed,
                   lastReg, regs, clr>>

\* POST /upload without a file part
UploadNoFile ==
    /\ ~crashed
    /\ resp' = [status |-> 400, error |-> "No file uploaded"]
    /\ lastEmit' = NoEmit
    /\ UNCHANGED <<status, users, messages, tasks, nextId, now, crashed,
                   lastReg, regs, clr, files, uploaded>>

\* file urls a client may ask for
Urls == {FileUrl(FileName(ts, n)) : ts \in 0..MaxClock, n \in FileNames}

\* express.static on /uploads: what GET /uploads/<name> answers
Serve(fs, url) ==
    LET filename == Tail(url)
    IN  IF filename \in DOMAIN fs
        THEN [status |-> 200, body |-> fs[filename]]
        ELSE [status |-> 404]

\* GET /uploads/<name>
GetUpload(url) ==
    /\ ~crashed
    /\ resp' = Serve(files, url)
    /\ lastEmit' = NoEmit
    /\ UNCHANGED <<status, users, messages, tasks, nextId, now, crashed,
                   lastReg, regs, clr, files, uploaded>>

NextUpload ==
    \/ \E n \in FileNames, m \in MimeTypes, b \in Bytes : Upload(n, m, b)
    \/ UploadNoFile
    \/ \E url \in Urls : GetUpload(url)

SpecUpload == Init /\ [][NextUpload]_vars

\* -------------------------------------------------------- the whole server
\* the routes that read the store
NextGet ==
    \/ GetMessagesRoute
    \/ \E id \in Ids : MessagesFound(id)
    \/ GetOnlineUsersRoute
    \/ \E id \in Ids : OnlineUsersFound(id)
    \/ \E id \in Ids : QueryFail(id)

\* no handler is in flight and messages are stored
Calm == Quiet /\ messages # <<>>

\* the upload routes, followed between the handlers of the hub while messages
\* are stored, with one successful upload per behaviour
NextFiles ==
    \/ \E n \in FileNames, m \in MimeTypes, b \in Bytes :
          Calm /\ uploaded = {} /\ Upload(n, m, b)
    \/ Calm /\ UploadNoFile
    \/ \E url \in Urls : Calm /\ GetUpload(url)

NextServer == Next \/ NextGet \/ NextFiles

\* the hub and the HTTP routes, with store calls that may fail
SpecServer == Init /\ [][NextServer]_vars

\* ================================================================= claims
\* GET /online-users, when its query succeeds
GetOnlineUsers == Range(OnlineUsers(users))

\* GET /messages, when its query succeeds
GetMessages == messages

\* the handler at position id takes a step from pc to pc2
Moves(id, kind, pc, pc2) ==
    /\ id \in Running(kind, pc)
    /\ Len(tasks') = Len(tasks)
    /\ tasks'[id].pc = pc2

\* the same handler in the same state
SameTask(t1, t2) == t1.kind = t2.kind /\ t1 = t2

\* the handler at position id, of this kind and at this pc, returns
Returns(id, kind, pc) ==
    /\ id \in Running(kind, pc)
    /\ Len(tasks') = Len(tasks) - 1
    /\ \A j \in 1..Len(tasks') :
          SameTask(tasks'[j], tasks[IF j < id THEN j ELSE j + 1])

\* a handler of this kind starts
Starts(kind) ==
    /\ Len(tasks') = Len(tasks) + 1
    /\ tasks'[Len(tasks')].kind = kind

\* connection c has had no upsert applied
NeverRegistered(c) == \A u \in Usernames : <<u, c>> \notin regs

\* C1: once all handlers have completed, GET /online-users returns exactly the
\* usernames whose most recent registration has not been followed by a
\* disconnect of the connection that made it.
C1_OnlineUsersAreLiveRegistrations ==
    Quiet =>
        GetOnlineUsers =
            {u \in Usernames : lastReg[u] # 0 /\ status[lastReg[u]] # "closed"}

\* C6: with no handler in flight, a User record has a socketId only if that
\* id belongs to a connection that is currently live.
C6_SocketIdOnlyWhileLive ==
    Quiet =>
        \A i \in Indexes(users) :
            HasSocket(users[i]) => status[users[i].socketId] = "live"

\* C7: at most one User record per username, and the socketId of the record,
\* when it has one, is that of the upsert applied last on the username.
C7_OneRecordPerUsername ==
    \A u \in Usernames :
        /\ Cardinality(ByUsername(users, u)) <= 1
        /\ \A i \in ByUsername(users, u) :
              HasSocket(users[i]) => users[i].socketId = lastReg[u]

\* C7 witness: two connections registered the same username concurrently and
\* both upserts have been applied.
C7_Witness ==
    /\ Len(tasks) = 2
    /\ \A i \in {1, 2} : tasks[i].kind = "registerUser" /\ tasks[i].pc = "find"
    /\ tasks[1].data.username = tasks[2].data.username
    /\ tasks[1].conn # tasks[2].conn

\* a step of the disconnect handler at position id
DisconnectStep(id) ==
    /\ id \in DOMAIN tasks
    /\ tasks[id].kind = "disconnect"
    /\ \/ Returns(id, "disconnect", tasks[id].pc)
       \/ Len(tasks') = Len(tasks) /\ tasks'[id].pc # tasks[id].pc

\* C8: a disconnect never deletes a User record and never changes the
\* messages; for a connection that never registered it leaves the users as they
\* are, and otherwise it changes nothing but the socketId of a user that held
\* the id of the connection.
C8_DisconnectFrame ==
    [][/\ Starts("disconnect") => users' = users /\ messages' = messages
       /\ \A id \in Ids :
             DisconnectStep(id) =>
                LET c == tasks[id].conn
                IN  /\ messages' = messages
                    /\ Len(users') = Len(users)
                    /\ \A i \in Indexes(users) :
                          /\ users'[i].username = users[i].username
                          /\ users'[i] # users[i] =>
                                /\ i \in BySocket(users, c)
                                /\ ~HasSocket(users'[i])
                    /\ NeverRegistered(c) => users' = users
      ]_vars

\* C8 witness: the disconnect of a registered connection has cleared a socketId
\* while messages are stored.
C8_Witness ==
    \E id \in DOMAIN tasks :
        /\ tasks[id].kind = "disconnect"
        /\ tasks[id].pc = "find"
        /\ tasks[id].wrote
        /\ messages # <<>>

\* the event a step emits
Emits(event, payload, to) ==
    /\ lastEmit'.event = event
    /\ lastEmit'.payload = payload
    /\ lastEmit'.to = to

EmitsNothing == lastEmit'.event = "none"

\* C2: a sendMessage from a connection with no successful registration is
\* answered, once its lookup returns, by an "error" event { message:
\* "Unauthorized user" } to that connection only; it persists no message and
\* broadcasts nothing.
C2_UnregisteredSendRejected ==
    [][\A id \in Ids :
          /\ /\ id \in Running("sendMessage", "lookup")
             /\ NeverRegistered(tasks[id].conn)
             /\ Len(tasks') = Len(tasks)
             /\ tasks'[id].pc # "lookup"
             => /\ tasks'[id].pc = "reject"
                /\ messages' = messages
                /\ EmitsNothing
          /\ Returns(id, "sendMessage", "reject")
             => /\ Emits("error", [message |-> "Unauthorized user"], {tasks[id].conn})
                /\ messages' = messages
      ]_vars

\* C2 witness: a connection that never registered has just been sent the error.
C2_Witness ==
    /\ lastEmit.event = "error"
    /\ \E c \in Conns : lastEmit.to = {c} /\ NeverRegistered(c)
    /\ users # <<>>

\* the record of username u holds the id of connection c
Holds(u, c) ==
    \E i \in ByUsername(users, u) : HasSocket(users[i]) /\ users[i].socketId = c

\* username u was registered on connection c1 and, last, on another connection c2
Takeover(u, c1, c2) == c1 # c2 /\ <<u, c1>> \in regs /\ lastReg[u] = c2

\* the upsert of a registerUser handler of connection c for username u is applied
UpsertApplied(id, u, c) ==
    /\ Moves(id, "registerUser", "upsert", "find")
    /\ tasks[id].data.username = u
    /\ tasks[id].conn = c

\* the lookup of a sendMessage handler of connection c is answered
LookupAnswered(id, c) ==
    /\ id \in Running("sendMessage", "lookup")
    /\ tasks[id].conn = c
    /\ Len(tasks') = Len(tasks)
    /\ tasks'[id].pc # "lookup"

\* C3: after username u, registered on connection c1, is registered again from
\* another connection c2, the socketId of u is the id of c2, every sendMessage
\* on c1 fails authorization and every sendMessage on c2 is accepted with
\* sender u.
C3_Takeover ==
    [][\A id \in Ids, u \in Usernames, c1, c2 \in Conns :
          /\ UpsertApplied(id, u, c2) /\ c1 # c2 /\ <<u, c1>> \in regs
             => Holds(u, c2)'
          /\ Takeover(u, c1, c2) /\ LookupAnswered(id, c1)
             => tasks'[id].pc = "reject"
          /\ Takeover(u, c1, c2) /\ LookupAnswered(id, c2)
             => tasks'[id].pc = "save" /\ tasks'[id].res.sender = u
      ]_vars

\* C3, amended: after username u, registered on c1, is registered again from
\* another connection c2, the socketId of u is the id of c2; while it is, a
\* sendMessage looked up on c1 is never accepted with sender u and fails
\* authorization exactly when no record holds the id of c1, and a sendMessage
\* looked up on c2 is accepted, its sender being a username whose record
\* holds the id of c2 (u when u is the only one).
C3_TakeoverAmended ==
    [][\A id \in Ids, u \in Usernames, c1, c2 \in Conns :
          /\ UpsertApplied(id, u, c2) /\ c1 # c2 /\ <<u, c1>> \in regs
             => Holds(u, c2)'
          /\ c1 # c2 /\ <<u, c1>> \in regs /\ Holds(u, c2) /\ LookupAnswered(id, c1)
             => /\ tasks'[id].pc = "save" => tasks'[id].res.sender # u
                /\ tasks'[id].pc = "reject" <=> BySocket(users, c1) = {}
          /\ c1 # c2 /\ <<u, c1>> \in regs /\ Holds(u, c2) /\ LookupAnswered(id, c2)
             => /\ tasks'[id].pc = "save"
                /\ Holds(tasks'[id].res.sender, c2)
                /\ Cardinality(BySocket(users, c2)) = 1 => tasks'[id].res.sender = u
      ]_vars

\* C3 witness: a username was taken over and a sendMessage of the connection
\* that lost it has just been refused.
C3_Witness ==
    /\ lastEmit.event = "error"
    /\ \E u \in Usernames, c1, c2 \in Conns :
          /\ c1 # c2
          /\ <<u, c1>> \in regs
          /\ Holds(u, c2)
          /\ lastEmit.to = {c1}

\* C4: after a clearChat has been handled, and no sendMessage arrived after a
\* clearChat event, GET /messages returns an empty array, also with a
\* sendMessage handler in flight at the clearChat; and the handler has sent
\* receiveMessage with an empty array to every connected client.
C4_ClearChatEmpties ==
    /\ []((clr.done /\ ~clr.lateSend) => GetMessages = <<>>)
    /\ [][\A id \in Ids :
             Returns(id, "clearChat", "emit") => Emits("receiveMessage", <<>>, Live)
         ]_vars

\* C4, amended: after a clearChat has been handled, GET /messages returns an
\* empty array provided no sendMessage arrived after a clearChat event and no
\* sendMessage handler that had not yet saved its message was in flight when a
\* delete was applied; and the handler has sent receiveMessage with an empty
\* array to every connected client.
C4_ClearChatEmptiesAmended ==
    /\ []((clr.done /\ ~clr.lateSend /\ ~clr.raced) => GetMessages = <<>>)
    /\ [][\A id \in Ids :
             Returns(id, "clearChat", "emit") => Emits("receiveMessage", <<>>, Live)
         ]_vars

\* C4 witness: a clearChat that removed messages has just told both clients.
C4_Witness ==
    /\ clr.done /\ ~clr.lateSend /\ ~clr.raced /\ clr.removed
    /\ lastEmit.event = "receiveMessage"
    /\ lastEmit.payload = <<>>
    /\ lastEmit.to = Conns

\* the value the claim gives a field of the message: the given one, or the
\* default when the payload has none
Given(data, k, default) == IF k \in DOMAIN data THEN data[k] ELSE default

\* C5: for every accepted sendMessage of a connection registered as u, the
\* message saved and the message broadcast are the same record, with sender u,
\* the given content ("" when absent), the given fileUrl and fileType (null when
\* absent) and a timestamp not earlier than the time the event was sent.
C5_MessageRoundTrip ==
    [][\A id \in Ids :
          /\ Moves(id, "sendMessage", "lookup", "save") =>
                LET d == tasks[id].data
                    m == tasks'[id].res
                IN  /\ \A u \in Usernames : Holds(u, tasks[id].conn) => m.sender = u
                    /\ m.content = Given(d, "content", "")
                    /\ m.fileUrl = Given(d, "fileUrl", Null)
                    /\ m.fileType = Given(d, "fileType", Null)
                    /\ m.timestamp >= tasks[id].sentAt
          /\ Moves(id, "sendMessage", "save", "emit") =>
                messages' = Append(messages, tasks[id].res)
          /\ Returns(id, "sendMessage", "emit") =>
                Emits("receiveMessage", tasks[id].res, Live)
      ]_vars

\* the value the handler gives fileUrl and fileType: null also for an empty string
GivenOrNull(data, k) == IF k \in DOMAIN data /\ data[k] # "" THEN data[k] ELSE Null

\* C5, amended: for every accepted sendMessage, the message saved and the
\* message broadcast are the same record, with as sender a username whose
\* record held the id of the connection at the lookup, the given content (""
\* when absent), the given fileUrl and fileType (null when absent or empty) and
\* a timestamp not earlier than the time the event was sent.
C5_MessageRoundTripAmended ==
    [][\A id \in Ids :
          /\ Moves(id, "sendMessage", "lookup", "save") =>
                LET d == tasks[id].data
                    m == tasks'[id].res
                IN  /\ Holds(m.sender, tasks[id].conn)
                    /\ m.content = Given(d, "content", "")
                    /\ m.fileUrl = GivenOrNull(d, "fileUrl")
                    /\ m.fileType = GivenOrNull(d, "fileType")
                    /\ m.timestamp >= tasks[id].sentAt
          /\ Moves(id, "sendMessage", "save", "emit") =>
                messages' = Append(messages, tasks[id].res)
          /\ Returns(id, "sendMessage", "emit") =>
                Emits("receiveMessage", tasks[id].res, Live)
      ]_vars

\* C5 witness: a message sent after the clock had advanced, with an empty
\* fileUrl, has just been broadcast and is stored.
C5_Witness ==
    /\ lastEmit.event = "receiveMessage"
    /\ lastEmit.payload # <<>>
    /\ lastEmit.payload \in Range(messages)
    /\ lastEmit.payload.content = "hi"
    /\ lastEmit.payload.fileUrl = Null
    /\ lastEmit.payload.timestamp = MaxClock

\* C9: when a store call fails in a handler of the hub, the handler emits
\* nothing, has left both collections as they were when it started, and the hub
\* goes on handling events.
C9_StoreFailureDropped ==
    [][\A id \in Ids :
          (id \in Waiting /\ Returns(id, tasks[id].kind, tasks[id].pc)) =>
             /\ EmitsNothing
             /\ users' = users
             /\ messages' = messages
             /\ ~tasks[id].wrote
             /\ ~crashed'
      ]_vars

\* C10: for every successful upload, a later GET of the returned fileUrl
\* returns the bytes of that upload, and the fileUrl is /uploads/ followed by
\* the clock value and the extension of the original name.
C10_UploadRoundTrip ==
    \A p \in uploaded :
        /\ Serve(files, p[1]) = [status |-> 200, body |-> p[2]]
        /\ Len(p[1]) = 3
        /\ p[1][1] = "/uploads/"
        /\ p[1][2] \in 0..MaxClock
        /\ p[1][3] \in {ExtName(n) : n \in FileNames}

\* the usernames whose record has a socketId
OnlineNames == {u \in Usernames : \E c \in Conns : Holds(u, c)}

\* the response of a GET route: 500 with an error, or 200 with this body
Answers(route, body) ==
    /\ resp'.route = route
    /\ \/ /\ resp'.status = 200
          /\ DOMAIN resp' = {"route", "status", "body"}
          /\ resp'.body = body
       \/ /\ resp'.status = 500
          /\ DOMAIN resp' = {"route", "status", "error"}
          /\ resp'.error = ErrMessage

\* C11: GET /messages and GET /online-users answer 500 with an { error }
\* payload when their query fails and otherwise 200 with the complete result
\* (all messages in store order; the usernames of all records with a socketId,
\* each once); the request leaves users and messages as they are.
C11_GetRoutes ==
    [][/\ Starts("GET /messages") \/ Starts("GET /online-users")
          => users' = users /\ messages' = messages
       /\ \A id \in Ids :
             /\ Returns(id, "GET /messages", "query")
                => /\ Answers("GET /messages", messages)
                   /\ users' = users /\ messages' = messages
             /\ Returns(id, "GET /online-users", "query")
                => /\ resp'.status = 200
                      => /\ Range(resp'.body) = OnlineNames
                         /\ Len(resp'.body) = Cardinality(OnlineNames)
                   /\ Answers("GET /online-users",
                              IF resp'.status = 200 THEN resp'.body ELSE <<>>)
                   /\ users' = users /\ messages' = messages
      ]_vars

\* C11 witness: GET /online-users has just answered with no name while a user
\* without a socketId and a message are stored.
C11_Witness ==
    /\ resp.status = 200
    /\ "route" \in DOMAIN resp
    /\ resp.route = "GET /online-users"
    /\ resp.body = <<>>
    /\ users # <<>>
    /\ messages # <<>>

\* the handlers in flight of connection c
Handlers(c) == {i \in DOMAIN tasks : tasks[i].conn = c}

\* the handlers of connection c that started before the one at position id
Earlier(id, kind, c) ==
    {j \in Handlers(c) : j < id /\ tasks[j].kind = kind}

\* C12: the handler of an event of a connection finishes (store calls and emit
\* included) before the handler of the next event of that connection starts;
\* so the lookup of a sendMessage that follows a registerUser of its connection
\* finds the registration, and the update of a disconnect is issued only once
\* the registerUser handlers of its connection have finished.
C12_RunToCompletion ==
    [][/\ \A c \in Conns :
             Len(tasks') = Len(tasks) + 1 /\ tasks'[Len(tasks')].conn = c
                => Handlers(c) = {}
       /\ \A id \in Ids, c \in Conns :
             LookupAnswered(id, c) /\ Earlier(id, "registerUser", c) # {}
                => tasks'[id].pc = "save"
       /\ \A c \in Conns :
             Starts("disconnect") /\ tasks'[Len(tasks')].conn = c
                => \A j \in Handlers(c) : tasks[j].kind # "registerUser"
      ]_vars

\* the handlers that broadcast the online users, and the event they emit
PresenceKinds == {"registerUser", "disconnect"}

PresenceEvent(kind) ==
    IF kind = "registerUser" THEN "userConnected" ELSE "userDisconnected"

\* a handler other than the one at position id updates the users
OtherUpdates(id) ==
    \E j \in Ids \ {id} :
        \/ Moves(j, "registerUser", "upsert", "find")
        \/ Moves(j, "disconnect", "unset", "find")

\* C13: the registerUser and disconnect handlers read the online users in one
\* step and emit the list they read in a later one; the list a handler holds
\* goes stale when, and only when, another handler updates the users in
\* between, and the hub neither notices nor repairs it: the emit sends the list
\* as read and, with no handler in flight, no step touches the users or emits.
\* The witness is the execution in which the list broadcast last differs from
\* the online users of the store once all handlers have finished.
C13_PresenceRace ==
    [][/\ \A id \in Ids, kind \in PresenceKinds :
             /\ Moves(id, kind, "find", "emit")
                => /\ Range(tasks'[id].res) = OnlineNames
                   /\ Len(tasks'[id].res) = Cardinality(OnlineNames)
                   /\ users' = users
             /\ id \in Running(kind, "emit") /\ users' # users
                => OtherUpdates(id)
             /\ Returns(id, kind, "emit")
                => /\ Emits(PresenceEvent(kind), tasks[id].res, Live)
                   /\ users' = users
       /\ Quiet => users' = users /\ EmitsNothing
      ]_vars

\* C13 witness: all handlers have finished and the last of them has just
\* broadcast a list that is not the online users of the store.
C13_Witness ==
    /\ Quiet
    /\ lastEmit.event \in {"userConnected", "userDisconnected"}
    /\ Range(lastEmit.payload) # OnlineNames

\* a handler of this kind leaves the handlers in flight
Leaves(id, kind) ==
    /\ id \in DOMAIN tasks
    /\ tasks[id].kind = kind
    /\ Returns(id, kind, tasks[id].pc)

\* a handler of this kind takes a step and stays in flight
Advances(id, kind) ==
    /\ id \in DOMAIN tasks
    /\ tasks[id].kind = kind
    /\ Len(tasks') = Len(tasks)
    /\ tasks'[id].pc # tasks[id].pc

\* every handler in flight returns
Completes == []<>Quiet

NoneClosed(u) == \A c \in Conns : <<u, c>> \in regs => status[c] # "closed"

C15_PersistThenBroadcast ==
    /\ Completes
    /\ [][/\ \A id \in Ids :
               /\ \A c \in Conns :
                     LookupAnswered(id, c) /\ BySocket(users, c) # {}
                        => tasks'[id].pc = "save"
               /\ Moves(id, "sendMessage", "save", "emit")
                  => /\ Len(messages') = Len(messages) + 1
                     /\ messages'[Len(messages')] = tasks[id].res
                     /\ tasks'[id].res = tasks[id].res
               /\ /\ Advances(id, "sendMessage")
                  /\ tasks'[id].pc = "emit"
                  => Moves(id, "sendMessage", "save", "emit")
               /\ Advances(id, "sendMessage") => EmitsNothing
               /\ Leaves(id, "sendMessage") /\ tasks[id].pc # "reject"
                  => /\ tasks[id].pc = "emit"
                     /\ Emits("receiveMessage", tasks[id].res, Live)
          /\ lastEmit'.event = "receiveMessage" /\ lastEmit'.payload # <<>>
               => \E id \in Ids :
                     /\ Returns(id, "sendMessage", "emit")
                     /\ lastEmit'.payload = tasks[id].res
        ]_vars

\* C15 witness: the second message stored has just been broadcast to both
\* connections.
C15_Witness ==
    /\ lastEmit.event = "receiveMessage"
    /\ lastEmit.to = Conns
    /\ Len(messages) = 2
    /\ lastEmit.payload = messages[2]

\* the messages stored before the step are stored after it, unchanged and in
\* the same places
Kept == \A i \in Indexes(messages) : i <= Len(messages') /\ messages'[i] = messages[i]

\* the handlers that never write a message
ReadKinds == {"registerUser", "disconnect", "GET /messages", "GET /online-users"}

\* C16: the messages change in two ways only: the save of an accepted
\* sendMessage appends exactly one message, its own, and the delete of a
\* clearChat removes them all.  No other step (of registerUser, of disconnect, of
\* a rejected sendMessage, of an HTTP request) changes the messages, and a
\* stored message keeps its fields and its place until a clearChat.
C16_MessagesFrame ==
    [][/\ messages' # messages
          => \E id \in Ids :
                \/ Moves(id, "sendMessage", "save", "emit")
                \/ Moves(id, "clearChat", "delete", "emit")
       /\ \A id \in Ids :
             /\ Moves(id, "sendMessage", "save", "emit")
                => /\ Kept
                   /\ Len(messages') = Len(messages) + 1
                   /\ messages'[Len(messages')] = tasks[id].res
             /\ Moves(id, "clearChat", "delete", "emit") => messages' = <<>>
             /\ \A kind \in ReadKinds :
                   Advances(id, kind) \/ Leaves(id, kind) => messages' = messages
             /\ Moves(id, "sendMessage", "lookup", "reject")
                \/ Returns(id, "sendMessage", "reject") => messages' = messages
       /\ resp'.status # 0 => messages' = messages
       /\ messages' # <<>> => Kept
      ]_vars

\* C16 witness: an upload has just been answered while two messages are stored.
C16_Witness ==
    /\ resp.status = 200
    /\ "fileUrl" \in DOMAIN resp
    /\ Len(messages) = 2

\* C17: at most one User record holds the id of a connection, so the sender
\* the lookup of sendMessage finds for a connection is determined; this also
\* for a connection that registers more than one username.
C17_OneRecordPerSocket ==
    \A c \in Conns :
        /\ Cardinality(BySocket(users, c)) <= 1
        /\ Cardinality(Senders(users, c)) <= 1

\* the places of message m in GET /messages
Places(m) == {i \in Indexes(GetMessages) : GetMessages[i] = m}

\* the sendMessage handlers other than id that have saved their message and not
\* yet broadcast it
Pending(id) == Running("sendMessage", "emit") \ {id}

\* the connections on which username u has been registered
Registered(u) == {c \in Conns : <<u, c>> \in regs}

\* two messages whose senders were never registered on the same connection:
\* they were sent on different connections
OfDifferentConnections(m1, m2) == Registered(m1.sender) \cap Registered(m2.sender) = {}

\* C18: the order of two accepted messages of different connections in GET
\* /messages, with no clearChat in between, is the order of their receiveMessage
\* broadcasts: when a stored message is broadcast, every message stored after
\* it is still to be broadcast (it is held by a handler that has saved and not
\* yet emitted).
C18_HistoryOrder ==
    [][\A id \in Ids :
          Returns(id, "sendMessage", "emit") /\ Places(tasks[id].res) # {}
             => \A k \in Indexes(GetMessages) :
                   /\ \A i \in Places(tasks[id].res) : i < k
                   /\ OfDifferentConnections(tasks[id].res, GetMessages[k])
                   => \E j \in Pending(id) : tasks[j].res = GetMessages[k]
      ]_vars

\* C18, amended: GET /messages returns the messages in the order of their
\* saves (a save puts its message after every stored message and moves none),
\* and a handler broadcasts its message after its own save and only then; so
\* a message broadcast before another is saved precedes it in GET /messages,
\* and only handlers that are between save and emit at the same time may
\* broadcast in the other order.
C18_HistoryOrderAmended ==
    [][\A id \in Ids :
          /\ Moves(id, "sendMessage", "save", "emit")
             => /\ Kept
                /\ GetMessages' = GetMessages \o <<tasks[id].res>>
                /\ EmitsNothing
                /\ tasks'[id].wrote
          /\ Returns(id, "sendMessage", "emit")
             => /\ tasks[id].wrote
                /\ Emits("receiveMessage", tasks[id].res, Live)
                /\ GetMessages' = GetMessages
      ]_vars

\* C18 witness: two different messages are stored, no handler is in flight and
\* the second has just been broadcast, after the first.
C18_Witness ==
    /\ Quiet
    /\ Len(GetMessages) = 2
    /\ GetMessages[1] # GetMessages[2]
    /\ lastEmit.event = "receiveMessage"
    /\ lastEmit.payload = GetMessages[2]

====
